---- MODULE Spec2Model ----
(***************************************************************************)
(* Board reconciliation of the kanban board (src/src/components/           *)
(* KanbanBoard.tsx).                                                       *)
(*                                                                         *)
(* React state is modelled with two variables.  `board` is the pending    *)
(* state: the value every queued setBoard updater receives as `prev`.     *)
(* `rendered` is the state of the last render: the value the handlers of  *)
(* that render read through their closure (`board[...]`, findContainer,   *)
(* persistColumnPositions).  Render copies the first into the second.     *)
(* An async handler keeps the closure of the render it was started from,  *)
(* so each remote call in flight carries the rows it will write.          *)
(*                                                                         *)
(* JavaScript indices are 0-based and are kept 0-based in the operators'  *)
(* parameters; sequences are 1-based inside.                              *)
(***************************************************************************)
EXTENDS Integers, Sequences, FiniteSets, TLC

\* ------------------------------------------------------------------ bounds
MaxCards == 3
MaxTitles == 2
MaxCalls == 2
MaxCols == 3
MaxStale == 1
MaxSteps == 2
MaxLoad == 2
MaxMarkerSteps == 3
MaxMarkerLoad == 1

\* ------------------------------------------------------------------ values
Cols == <<"todo", "doing", "done", "temp">>
ColumnKey == {Cols[i] : i \in 1..Len(Cols)}
NullKey == "null"
\* a key outside the fixed four, as a row of kanban_columns or a card's
\* column_key may hold it
InvalidKey == "archive"
\* Object.entries of a board: the four keys of the literal, then a key the
\* column list added
KeyOrder == Cols \o <<InvalidKey>>
\* the columns that rows, events and gestures name
UsedCols == {Cols[i] : i \in 1..MaxCols}
\* card identities are strings (String(c.id)), like the column keys
IdNames == <<"c1", "c2", "c3", "c4", "c5">>
Ids == {IdNames[i] : i \in 1..MaxCards}
Titles == 1..MaxTitles
NoId == ""
Undefined == [id |-> NoId, title |-> 0]
Item(i, t) == [id |-> i, title |-> t]
initialBoard == [c \in ColumnKey |-> <<>>]

Min(a, b) == IF a < b THEN a ELSE b
Max(a, b) == IF a > b THEN a ELSE b

\* ------------------------------------------------------- array primitives
\* Array.prototype.findIndex(item => item.id === id): 0-based, -1 when absent.
FindIndex(s, id) ==
  IF \E k \in 1..Len(s) : s[k].id = id
  THEN (CHOOSE k \in 1..Len(s) : s[k].id = id /\ \A j \in 1..(k - 1) : s[j].id # id) - 1
  ELSE -1

\* Array.prototype.filter(item => item.id !== id)
FilterOut(s, id) == SelectSeq(s, LAMBDA it : it.id # id)

\* Array.prototype.slice(a, b) for 0 <= a
Slice(s, a, b) == SubSeq(s, Min(a, Len(s)) + 1, Min(b, Len(s)))

\* array[i] for a 0-based i: undefined outside the array
At(s, i) == IF i >= 0 /\ i < Len(s) THEN s[i + 1] ELSE Undefined

\* Array.prototype.splice(start, 0, x): start is clamped as JavaScript does
SpliceIn(s, start, x) ==
  LET p == IF start < 0 THEN Max(Len(s) + start, 0) ELSE Min(start, Len(s))
  IN SubSeq(s, 1, p) \o <<x>> \o SubSeq(s, p + 1, Len(s))

\* arrayMove of @dnd-kit/sortable:
\*   newArray.splice(to < 0 ? newArray.length + to : to, 0, newArray.splice(from, 1)[0])
\* the target index is computed before the element is taken out; taking out
\* an index past the end yields undefined, which is then inserted.
arrayMove(s, from, to) ==
  LET n == Len(s)
      t == IF to < 0 THEN n + to ELSE to
      f == IF from < 0 THEN Max(n + from, 0) ELSE from
      taken == At(s, f)
      rest == IF f < n THEN SubSeq(s, 1, f) \o SubSeq(s, f + 2, n) ELSE s
  IN SpliceIn(rest, t, taken)

IdsOf(s) == {s[k].id : k \in 1..Len(s)}
BoardIds(b) == UNION {IdsOf(b[c]) : c \in ColumnKey} \ {NoId}
HasUndefined(b) == \E c \in ColumnKey : \E k \in 1..Len(b[c]) : b[c][k] = Undefined

\* ensureUniqueItems: one seenIds set across the columns in key order, first
\* occurrence kept.
RECURSIVE UniqueSeq(_, _)
UniqueSeq(s, seen) ==
  IF s = <<>> THEN <<>>
  ELSE IF Head(s).id \in seen THEN UniqueSeq(Tail(s), seen)
       ELSE <<Head(s)>> \o UniqueSeq(Tail(s), seen \cup {Head(s).id})

RECURSIVE SeenBefore(_, _)
SeenBefore(b, k) ==
  IF k = 1 THEN {} ELSE SeenBefore(b, k - 1) \cup IdsOf(b[KeyOrder[k - 1]])

ColIndex(c) == CHOOSE k \in 1..Len(KeyOrder) : KeyOrder[k] = c

ensureUniqueItemsBroken(b) == b

\* variant with one seenIds set per column
ensureUniqueItemsPerColumn(b) == [c \in DOMAIN b |-> UniqueSeq(b[c], {})]

\* cleanBoard starts as the four-key literal and takes every key of the input
ensureUniqueItems(b) ==
  [c \in ColumnKey \cup DOMAIN b |->
     IF c \in DOMAIN b THEN UniqueSeq(b[c], SeenBefore(b, ColIndex(c))) ELSE <<>>]

\* findContainer(id) on a board: a column key resolves to itself, a card to
\* the first column (key order) holding it, anything else to "none".
NoCol == "none"

\* variant of findContainer that scans the cards only
findContainerCardsOnly(b, id) ==
  IF \E c \in ColumnKey : \E k \in 1..Len(b[c]) : b[c][k].id = id
  THEN Cols[CHOOSE k \in 1..Len(Cols) :
               /\ id \in IdsOf(b[Cols[k]])
               /\ \A j \in 1..(k - 1) : id \notin IdsOf(b[Cols[j]])]
  ELSE NoCol

findContainer(b, id) ==
  IF id \in ColumnKey THEN id
  ELSE IF \E c \in ColumnKey : \E k \in 1..Len(b[c]) : b[c][k].id = id
       THEN Cols[CHOOSE k \in 1..Len(Cols) :
                    /\ id \in IdsOf(b[Cols[k]])
                    /\ \A j \in 1..(k - 1) : id \notin IdsOf(b[Cols[j]])]
       ELSE NoCol

\* (column_key as ColumnKey) ?? "todo"
DeclaredCol(k) == IF k = NullKey THEN "todo" ELSE k

\* ------------------------------------------------------------------- state
VARIABLES
  board,          \* useState board: the pending state (`prev` of the next updater)
  rendered,       \* the board of the last render (what handler closures read)
  localUpdateRef, \* localUpdateRef.current: the Pending-Write Marker Set
  activeId,       \* the card being dragged (NoId: no drag in progress)
  loading,        \* useState loading
  renderedLoading,\* loading of the last render: the spinner is shown instead of the board
  error,          \* useState error ("none" for null)
  crashed,        \* a render threw on an undefined entry: the component is unmounted
  calls,          \* remote calls in flight, each with the closure data of its handler
  assigned,       \* identities the store has assigned so far
  nPending,       \* setBoard calls since the last render
  fuel,           \* gestures and events the environment may still produce
  loadCap,        \* the most rows the initial load returns
  dragStartCol,   \* history: the column the dragged card occupied at drag-start
  last,           \* history: the last handler that ran, and what it found
  skipped,        \* history: identities whose UPDATE event was ignored
  remote,         \* the store's rows and the events it has emitted and not yet delivered
  connection,     \* useState connectionStatus, and the last status the channel reported
  mobile          \* MobileTodoList: useState todos, loading and error

vars == <<board, rendered, localUpdateRef, activeId, loading, renderedLoading, error, crashed, calls,
          assigned, nPending, fuel, loadCap, dragStartCol, last, skipped, remote, connection, mobile>>

\* what `last` records: the handler, the card it was about, the column it
\* targeted, whether the card was on the pending board, whether it was marked,
\* and whether the pending board differed from the rendered one
Last(op, id, col, had, marked) ==
  [op |-> op, id |-> id, col |-> col, had |-> had, marked |-> marked,
   stale |-> (board # rendered)]

\* Identities are opaque: the store hands out the unassigned names in order.
FreshId == IdNames[CHOOSE k \in 1..MaxCards :
                     IdNames[k] \notin assigned /\ \A j \in 1..(k - 1) : IdNames[j] \in assigned]
HasFresh == assigned # Ids

\* rows of one persistColumnPositions pass: items.map((it, idx) => ({id, position: idx}))
PositionRows(items) == [k \in 1..Len(items) |-> [id |-> items[k].id, position |-> k - 1]]

NoRows == <<>>
Call(kind, phase, col, old, id, title, rows, rowsOld) ==
  [kind |-> kind, phase |-> phase, col |-> col, old |-> old, id |-> id,
   title |-> title, rows |-> rows, rowsOld |-> rowsOld]

RemoveAt(s, i) == SubSeq(s, 1, i - 1) \o SubSeq(s, i + 1, Len(s))
ReplaceAt(s, i, x) == [s EXCEPT ![i] = x]

\* setBoard: the new pending state.  A state holding an undefined entry makes
\* the render that follows throw (Column reads item.id of every entry), which
\* unmounts the component; the model takes that crash with the step that
\* inserts the entry.  After unmount setBoard is ignored.
SetBoard(nb) ==
  /\ board' = IF crashed THEN board ELSE nb
  /\ crashed' = (crashed \/ HasUndefined(nb))
  /\ nPending' = IF crashed THEN nPending ELSE nPending + 1

SetError(msg) == error' = IF crashed THEN error ELSE msg

\* a handler or an event callback runs while at most MaxStale updates of the
\* board wait for their render
Fresh == nPending <= MaxStale

\* The store and its event channel.  With `on` the rows of this client's
\* cards are kept and every write the store performs emits its event
\* into `echoes`, delivered in order; without it the rows are not kept and
\* the environment produces the events (Ingest).
NoRow == [title |-> 0, column_key |-> NullKey, position |-> 0]
RemoteInit(on) == [on |-> on, rows |-> [id \in Ids |-> NoRow], echoes |-> <<>>,
                   delivered |-> 0]
HasRow(id) == remote.rows[id] # NoRow
EchoOf(type, id, row) ==
  [eventType |-> type, id |-> id, title |-> row.title, column_key |-> row.column_key]
\* the store writes a row (NoRow: deletes it) and emits the events evs
StoreWrites(id, row, evs) ==
  remote' = IF remote.on
            THEN [remote EXCEPT !.rows[id] = row, !.echoes = @ \o evs]
            ELSE remote

InitAll(steps, rows, on) ==
  /\ board = initialBoard
  /\ rendered = initialBoard
  /\ localUpdateRef = {}
  /\ activeId = NoId
  /\ loading = TRUE
  /\ renderedLoading = TRUE
  /\ error = "none"
  /\ crashed = FALSE
  /\ calls = <<>>
  /\ assigned = {}
  /\ nPending = 0
  /\ fuel = steps
  /\ loadCap = rows
  /\ dragStartCol = NoCol
  /\ last = [op |-> "mount", id |-> NoId, col |-> NoCol, had |-> FALSE,
             marked |-> FALSE, stale |-> FALSE]
  /\ skipped = {}
  /\ remote = RemoteInit(on)
  /\ connection = [status |-> "connecting", reported |-> "none"]
  /\ mobile = [todos |-> <<>>, loading |-> TRUE, error |-> "none"]

InitWith(steps, rows) == InitAll(steps, rows, FALSE)

Init == InitWith(MaxSteps, MaxLoad)

\* ------------------------------------------------------------ initial load
\* rows of the card query (ascending position): distinct identities.  A row's
\* column_key is one of the fixed keys, null, or a key outside the fixed four.
\* The keys of the column query are an input of fetchDataWithColumns.
LoadedTitle == 1
FetchedRow == [id : Ids, title : {LoadedTitle},
               column_key : UsedCols \cup {NullKey, InvalidKey}]
RowIds(s) == {s[k].id : k \in 1..Len(s)}
FetchResults ==
  {s \in UNION {[1..n -> FetchedRow] : n \in 0..MaxCards} :
     /\ \A i, j \in 1..Len(s) : i # j => s[i].id # s[j].id
     \* identities not seen before are named in the order of the rows
     /\ \A k \in 1..MaxCards :
          IdNames[k] \in RowIds(s) \ assigned =>
            /\ \A j \in 1..(k - 1) : IdNames[j] \in RowIds(s) \cup assigned
            /\ \A j \in 1..(k - 1) : \A a, b \in 1..Len(s) :
                  (s[a].id = IdNames[j] /\ s[b].id = IdNames[k] /\ IdNames[j] \notin assigned)
                     => a < b}

RECURSIVE Partition(_, _)
Partition(rows, next) ==
  IF rows = <<>> THEN next
  ELSE LET c == Head(rows)
           colKey == DeclaredCol(c.column_key)
       IN Partition(Tail(rows), [next EXCEPT ![colKey] = @ \o <<Item(c.id, c.title)>>])

\* next[colKey] is undefined for a key outside the fixed four: spreading it
\* throws inside the try block
ThrowsOnRows(rows) == \E k \in 1..Len(rows) : rows[k].column_key = InvalidKey

\* the rows fetched are the rows the store holds
StoreHolding(rows) ==
  IF remote.on
  THEN [remote EXCEPT !.rows = [id \in Ids |->
          IF id \in RowIds(rows)
          THEN LET r == rows[CHOOSE k \in 1..Len(rows) : rows[k].id = id]
                   k == CHOOSE k \in 1..Len(rows) : rows[k].id = id
               \* ordered by position: the rows of a column count from 0
               IN [title |-> r.title, column_key |-> r.column_key,
                   position |-> Cardinality({j \in 1..(k - 1) :
                                  rows[j].column_key = r.column_key})]
          ELSE @[id]]]
  ELSE remote

\* the key sets the column query can answer with: the fixed keys, the fixed
\* keys and one more, or no row at all
ColumnLists == {ColumnKey, ColumnKey \cup {InvalidKey}, {}}

\* `next` after the loop over the column rows: next[col.key] = [] adds a key
\* the literal does not have
NextOf(columns) == [c \in ColumnKey \cup columns |-> <<>>]

\* a card row declares a key `next` does not have
ThrowsOn(columns, rows) ==
  \E k \in 1..Len(rows) : DeclaredCol(rows[k].column_key) \notin DOMAIN NextOf(columns)

\* fetchData after both queries answered with data, the column query with
\* rows of the keys `columns`:
\* setBoard(ensureUniqueItems(next)), setLoading(false); the catch branch
\* sets the load error instead of the board
fetchDataWithColumns(columns, rows) ==
  /\ loading
  /\ Len(rows) <= loadCap
  /\ IF ThrowsOn(columns, rows)
     THEN /\ error' = "load"
          /\ UNCHANGED <<board, nPending>>
     ELSE /\ board' = ensureUniqueItems(Partition(rows, NextOf(columns)))
          /\ nPending' = nPending + 1
          /\ UNCHANGED error
  /\ loading' = FALSE
  /\ assigned' = assigned \cup RowIds(rows)
  /\ last' = Last(IF ThrowsOn(columns, rows) THEN "fetchThrew" ELSE "fetch",
                  NoId, NoCol, FALSE, FALSE)
  /\ remote' = StoreHolding(rows)
  /\ UNCHANGED <<rendered, renderedLoading, localUpdateRef, activeId, crashed,
                 calls, fuel, dragStartCol, skipped, loadCap, connection, mobile>>

\* the same when the column query answers with the fixed keys
fetchData(rows) == fetchDataWithColumns(ColumnKey, rows)

\* fetchData when the store answers the queries with a failure: the awaited
\* result carries the error beside data = null, the code reads only data and
\* goes on with `columns || []` and `cards || []`
fetchFailed ==
  /\ loading
  /\ board' = ensureUniqueItems(Partition(<<>>, initialBoard))
  /\ nPending' = nPending + 1
  /\ loading' = FALSE
  /\ last' = Last("fetchFailed", NoId, NoCol, FALSE, FALSE)
  /\ UNCHANGED <<rendered, renderedLoading, localUpdateRef, activeId, error, crashed,
                 calls, assigned, fuel, dragStartCol, skipped, loadCap, remote, connection, mobile>>

\* Column reads columnMeta[colKey].bg for every key of the board: a key
\* outside the fixed four makes the render of the board throw
RenderThrows == ~loading /\ DOMAIN board # ColumnKey

\* React renders the pending state; the handlers of this render close over it.
Render ==
  /\ ~crashed
  /\ nPending > 0 \/ renderedLoading # loading
  /\ crashed' = RenderThrows
  /\ rendered' = IF RenderThrows THEN rendered ELSE board
  /\ renderedLoading' = IF RenderThrows THEN renderedLoading ELSE loading
  /\ nPending' = 0
  /\ UNCHANGED <<board, localUpdateRef, activeId, loading, error, calls,
                 assigned, fuel, dragStartCol, last, skipped, loadCap, remote, connection, mobile>>

\* -------------------------------------------------- real-time ingestion
\* payload of a postgres_changes event (payload.new, or payload.old for DELETE)
Event == [eventType : {"INSERT", "UPDATE", "DELETE"}, id : Ids, title : Titles,
          column_key : UsedCols \cup {NullKey}]

\* variant of the INSERT case without the deduplication pass
InsertCaseNoDedup(prev, e) ==
  LET colKey == DeclaredCol(e.column_key)
      newItem == Item(e.id, e.title)
  IN [prev EXCEPT ![colKey] = <<newItem>> \o prev[colKey]]

\* case 'INSERT': prepend to the declared column, then deduplicate
InsertCase(prev, e) ==
  LET colKey == DeclaredCol(e.column_key)
      newItem == Item(e.id, e.title)
  IN ensureUniqueItems([prev EXCEPT ![colKey] = <<newItem>> \o prev[colKey]])

\* variant of the UPDATE case that puts the record first in its column
UpdateCasePrepend(prev, e) ==
  LET newColKey == DeclaredCol(e.column_key)
      updatedItem == Item(e.id, e.title)
      removed == [c \in DOMAIN prev |-> FilterOut(prev[c], e.id)]
  IN ensureUniqueItems([removed EXCEPT ![newColKey] = <<updatedItem>> \o removed[newColKey]])

\* case 'UPDATE' (marker not set): remove from every column, append to the
\* declared column, deduplicate
UpdateCase(prev, e) ==
  LET newColKey == DeclaredCol(e.column_key)
      updatedItem == Item(e.id, e.title)
      removed == [c \in DOMAIN prev |-> FilterOut(prev[c], e.id)]
  IN ensureUniqueItems([removed EXCEPT ![newColKey] = removed[newColKey] \o <<updatedItem>>])

\* variant of the DELETE case that honours the marker like the UPDATE case
DeleteCaseMarked(prev, e) ==
  IF e.id \in localUpdateRef
  THEN prev
  ELSE ensureUniqueItems([c \in DOMAIN prev |-> FilterOut(prev[c], e.id)])

\* case 'DELETE': remove from every column, deduplicate
DeleteCase(prev, e) ==
  ensureUniqueItems([c \in DOMAIN prev |-> FilterOut(prev[c], e.id)])

\* variant of the marker test that never skips
SkipsUpdateNever(e) == FALSE

\* the UPDATE case returns before setBoard while the card is marked
SkipsUpdate(e) == e.eventType = "UPDATE" /\ e.id \in localUpdateRef

IngestResult(prev, e) ==
  CASE e.eventType = "INSERT" -> InsertCase(prev, e)
    [] e.eventType = "UPDATE" -> UpdateCase(prev, e)
    [] e.eventType = "DELETE" -> DeleteCase(prev, e)

\* the INSERT and UPDATE updaters spread prev[colKey]: for a key prev does
\* not have the updater throws when React runs it, and the component unmounts
UpdaterThrows(prev, e) ==
  e.eventType \in {"INSERT", "UPDATE"} /\ DeclaredCol(e.column_key) \notin DOMAIN prev

\* the subscription callback on one event
OnEvent(e) ==
  /\ IF SkipsUpdate(e)
     THEN UNCHANGED <<board, crashed, nPending>>
     ELSE IF UpdaterThrows(board, e)
          THEN crashed' = TRUE /\ UNCHANGED <<board, nPending>>
          ELSE SetBoard(IngestResult(board, e))
  /\ last' = Last(e.eventType, e.id, DeclaredCol(e.column_key),
                  e.id \in BoardIds(board), e.id \in localUpdateRef)
  /\ skipped' = IF SkipsUpdate(e) THEN skipped \cup {e.id} ELSE skipped
  /\ UNCHANGED <<rendered, localUpdateRef, activeId, loading, renderedLoading, error, calls, dragStartCol, loadCap, connection, mobile>>

\* The subscription delivers one event.  Other clients and delayed or repeated
\* deliveries make any event about an assigned identity possible; an INSERT
\* may also announce an identity the store assigns to another client's card.
Ingest(e) ==
  /\ ~crashed /\ Fresh
  /\ fuel > 0
  /\ e.id \in assigned \/ (e.eventType = "INSERT" /\ HasFresh /\ e.id = FreshId)
  /\ fuel' = fuel - 1
  /\ assigned' = assigned \cup {e.id}
  /\ OnEvent(e)
  /\ UNCHANGED remote

\* the subscription delivers the oldest event the store has emitted
Deliver ==
  /\ ~crashed /\ Fresh
  /\ remote.on /\ remote.echoes # <<>>
  /\ OnEvent(Head(remote.echoes))
  /\ remote' = [remote EXCEPT !.echoes = Tail(@), !.delivered = @ + 1]
  /\ UNCHANGED <<fuel, assigned>>

\* ------------------------------------------------- subscription status
\* the states a channel reports to the subscribe callback
SubscribeStates == {"SUBSCRIBED", "TIMED_OUT", "CLOSED", "CHANNEL_ERROR"}

\* variant of the callback that takes a timeout for no news
StatusAfterNoTimeout(cur, status) ==
  IF status = "SUBSCRIBED" THEN "connected"
  ELSE IF status = "CHANNEL_ERROR" THEN "disconnected"
  ELSE cur

\* the subscribe callback: what connectionStatus becomes
StatusAfter(cur, status) ==
  IF status = "SUBSCRIBED" THEN "connected"
  ELSE IF status = "CHANNEL_ERROR" \/ status = "TIMED_OUT" THEN "disconnected"
  ELSE cur

\* the channel reports a status (the transport rejoins by itself, so any
\* status can follow any other); the cleanup of the effect unsubscribes
SubscribeStatus(status) ==
  /\ ~crashed
  /\ connection' = [status |-> StatusAfter(connection.status, status), reported |-> status]
  /\ UNCHANGED <<board, rendered, localUpdateRef, activeId, loading, renderedLoading, error,
                 crashed, calls, assigned, nPending, fuel, loadCap, dragStartCol, last,
                 skipped, remote, mobile>>

\* ------------------------------------------------------------ drag gesture
\* the board (not the spinner of lines 573-584) is on screen
CanGesture == ~crashed /\ ~renderedLoading /\ Fresh

\* A handler of a user gesture runs inside a discrete browser event: React
\* renders the updates it makes (and every update still pending) before the
\* next event is delivered.  Updates made by the subscription callback and by
\* the continuation of an awaited call wait for a later task (SetBoard).
\* variant in which the render of a gesture drops the updates still pending
FlushSyncDropsPending(nb) ==
  /\ board' = IF nb = board THEN rendered ELSE nb
  /\ crashed' = HasUndefined(nb)
  /\ rendered' = IF HasUndefined(nb) THEN rendered ELSE IF nb = board THEN rendered ELSE nb
  /\ nPending' = 0

FlushSync(nb) ==
  /\ board' = nb
  /\ crashed' = HasUndefined(nb)
  /\ rendered' = IF HasUndefined(nb) THEN rendered ELSE nb
  /\ nPending' = 0

\* onDragStart: a rendered card is picked up; setActiveId(id)
handleDragStart(id) ==
  /\ CanGesture
  /\ activeId = NoId
  /\ fuel > 0 /\ Len(calls) < MaxCalls
  /\ id \in BoardIds(rendered)
  /\ activeId' = id
  /\ dragStartCol' = findContainer(rendered, id)
  /\ fuel' = fuel - 1
  /\ FlushSync(board)
  /\ last' = Last("dragStart", id, findContainer(rendered, id),
                  id \in BoardIds(board), id \in localUpdateRef)
  /\ UNCHANGED <<localUpdateRef, loading, renderedLoading, error, calls,
                 assigned, skipped, loadCap, remote, connection, mobile>>

\* what the pointer can be over: a column's droppable or a rendered card
NoOver == "no-over"
OverTargets == UsedCols \cup BoardIds(rendered) \cup {NoOver}

\* the setBoard updater of handleDragOver; activeContainer and overContainer
\* come from the handler's closure, everything else from prev
DragOverUpdater(prev, actId, overId, activeContainer, overContainer, isBelowOverItem) ==
  LET activeItems == prev[activeContainer]
      overItems == prev[overContainer]
      activeIndex == FindIndex(activeItems, actId)
      overIndex == FindIndex(overItems, overId)
      modifier == IF isBelowOverItem THEN 1 ELSE 0
      newIndex == IF overId \in ColumnKey THEN Len(overItems) + 1
                  ELSE IF overIndex >= 0 THEN overIndex + modifier
                       ELSE Len(overItems) + 1
  IN [prev EXCEPT
        ![activeContainer] = FilterOut(prev[activeContainer], actId),
        ![overContainer] = Slice(prev[overContainer], 0, newIndex)
                             \o <<At(prev[activeContainer], activeIndex)>>
                             \o Slice(prev[overContainer], newIndex, Len(prev[overContainer]))]

\* the board one call of handleDragOver leaves, for the handler of the render
\* whose board is cl, applied to the pending board prev
DragOverApplied(cl, prev, actId, overId, isBelowOverItem) ==
  LET activeContainer == findContainer(cl, actId)
      overContainer == findContainer(cl, overId)
  IN IF overId = NoOver \/ activeContainer = NoCol \/ overContainer = NoCol
        \/ activeContainer = overContainer
     THEN prev
     ELSE DragOverUpdater(prev, actId, overId, activeContainer, overContainer, isBelowOverItem)

handleDragOver(overId, isBelowOverItem) ==
  /\ CanGesture
  /\ activeId # NoId
  /\ fuel > 0
  /\ fuel' = fuel - 1
  /\ LET activeContainer == findContainer(rendered, activeId)
         overContainer == findContainer(rendered, overId)
     IN /\ IF overId = NoOver \/ activeContainer = NoCol \/ overContainer = NoCol
              \/ activeContainer = overContainer
           THEN UNCHANGED <<board, rendered, crashed, nPending>>
           ELSE FlushSync(DragOverUpdater(board, activeId, overId, activeContainer,
                                          overContainer, isBelowOverItem))
        /\ last' = Last("dragOver", activeId, overContainer,
                        activeId \in BoardIds(board), activeId \in localUpdateRef)
  /\ UNCHANGED <<localUpdateRef, activeId, loading, renderedLoading, error, calls, assigned,
                 dragStartCol, skipped, loadCap, remote, connection, mobile>>

\* the setBoard updater of the cross-column branch of handleDragEnd;
\* activeItem and both containers come from the handler's closure
MoveUpdater(prev, activeItem, activeContainer, overContainer) ==
  LET removed == [prev EXCEPT ![activeContainer] = FilterOut(prev[activeContainer], activeItem.id)]
  IN ensureUniqueItems([removed EXCEPT ![overContainer] = removed[overContainer] \o <<activeItem>>])

\* the setBoard updater of the same-column branch of handleDragEnd; both
\* indices come from the handler's closure
ReorderUpdater(prev, overContainer, activeIndex, overIndex) ==
  [prev EXCEPT ![overContainer] = arrayMove(prev[overContainer], activeIndex, overIndex)]

\* persistColumnPositions(col) called from a render whose board is b: the
\* position writes it issues (none for an empty column)
persistColumnPositions(b, col) == PositionRows(b[col])

\* which branch handleDragEnd takes, from the closure of the last render
DragEndBranch(overId) ==
  LET activeContainer == findContainer(rendered, activeId)
      overContainer == findContainer(rendered, overId)
  IN IF overId = NoOver \/ activeContainer = NoCol \/ overContainer = NoCol THEN "none"
     ELSE IF activeContainer # overContainer THEN "move"
     ELSE IF FindIndex(rendered[activeContainer], activeId)
               # FindIndex(rendered[overContainer], overId) THEN "reorder"
     ELSE "same"

handleDragEnd(overId) ==
  /\ CanGesture
  /\ activeId # NoId
  /\ activeId' = NoId
  /\ dragStartCol' = NoCol
  /\ LET activeContainer == findContainer(rendered, activeId)
         overContainer == findContainer(rendered, overId)
         branch == DragEndBranch(overId)
     IN /\ CASE branch = "reorder" ->
                 LET activeIndex == FindIndex(rendered[activeContainer], activeId)
                     overIndex == FindIndex(rendered[overContainer], overId)
                 IN /\ FlushSync(ReorderUpdater(board, overContainer, activeIndex, overIndex))
                    /\ calls' = calls \o
                         <<Call("positions", "persist", overContainer, NoCol, NoId, 0,
                                persistColumnPositions(rendered, overContainer), NoRows)>>
                    /\ UNCHANGED localUpdateRef
             [] branch = "move" ->
                 LET activeItem == At(rendered[activeContainer],
                                      FindIndex(rendered[activeContainer], activeId))
                 IN /\ FlushSync(MoveUpdater(board, activeItem, activeContainer, overContainer))
                    \* updateCardColumnAndPositions runs up to its first await
                    /\ localUpdateRef' = localUpdateRef \cup {activeId}
                    /\ calls' = calls \o
                         <<Call("column", "update", overContainer, activeContainer, activeId, 0,
                                persistColumnPositions(rendered, overContainer),
                                persistColumnPositions(rendered, activeContainer))>>
             \* setActiveId(null) alone
             [] OTHER -> FlushSync(board) /\ UNCHANGED <<calls, localUpdateRef>>
        /\ last' = Last(branch, activeId, overContainer,
                        activeId \in BoardIds(board), activeId \in localUpdateRef)
  /\ UNCHANGED <<loading, renderedLoading, error, assigned, fuel, skipped, loadCap, remote, connection, mobile>>

\* ------------------------------------------------------- form and card menu
Idle == CanGesture /\ activeId = NoId /\ fuel > 0 /\ Len(calls) < MaxCalls

\* handleAdd: the create is sent; nothing changes locally before the reply.
\* The closure keeps newColumn, newTitle and the board of this render.
handleAdd(newColumn, newTitle) ==
  /\ Idle
  /\ fuel' = fuel - 1
  /\ calls' = calls \o <<Call("create", "sent", newColumn, NoCol, NoId, newTitle,
                              persistColumnPositions(rendered, newColumn), NoRows)>>
  /\ last' = Last("add", NoId, newColumn, FALSE, FALSE)
  /\ UNCHANGED <<board, rendered, localUpdateRef, activeId, loading, renderedLoading, error, crashed,
                 assigned, nPending, dragStartCol, skipped, loadCap, remote, connection, mobile>>

\* setError(null) in a gesture handler: a shown banner goes with a render
ClearError ==
  /\ error' = "none"
  /\ IF error # "none"
     THEN rendered' = board /\ nPending' = 0
     ELSE UNCHANGED <<rendered, nPending>>

\* handleDelete(col, id) from a rendered card: setError(null), then the
\* remote delete is awaited
handleDelete(id) ==
  /\ Idle
  /\ id \in BoardIds(rendered)
  /\ fuel' = fuel - 1
  /\ ClearError
  /\ LET col == findContainer(rendered, id)
     IN /\ calls' = calls \o <<Call("delete", "sent", col, NoCol, id, 0,
                                    persistColumnPositions(rendered, col), NoRows)>>
        /\ last' = Last("delete", id, col, id \in BoardIds(board), id \in localUpdateRef)
  /\ UNCHANGED <<board, localUpdateRef, activeId, loading, renderedLoading, crashed,
                 assigned, dragStartCol, skipped, loadCap, remote, connection, mobile>>

\* handleEdit(col, updated) from a rendered card's dialog
handleEdit(id, title) ==
  /\ Idle
  /\ id \in BoardIds(rendered)
  /\ fuel' = fuel - 1
  /\ ClearError
  /\ LET col == findContainer(rendered, id)
     IN /\ calls' = calls \o <<Call("edit", "sent", col, NoCol, id, title, NoRows, NoRows)>>
        /\ last' = Last("edit", id, col, id \in BoardIds(board), id \in localUpdateRef)
  /\ UNCHANGED <<board, localUpdateRef, activeId, loading, renderedLoading, crashed,
                 assigned, dragStartCol, skipped, loadCap, remote, connection, mobile>>

\* -------------------------------------------------- replies of remote calls
IsCall(i, kind, phase) ==
  i \in 1..Len(calls) /\ calls[i].kind = kind /\ calls[i].phase = phase

\* the store inserts the row of a create and assigns its identity
StoreInsert(i) ==
  /\ IsCall(i, "create", "sent")
  /\ HasFresh
  /\ assigned' = assigned \cup {FreshId}
  /\ calls' = ReplaceAt(calls, i, [calls[i] EXCEPT !.phase = "stored", !.id = FreshId])
  /\ LET row == [title |-> calls[i].title, column_key |-> calls[i].col, position |-> 0]
     IN StoreWrites(FreshId, row, <<EchoOf("INSERT", FreshId, row)>>)
  /\ UNCHANGED <<board, rendered, localUpdateRef, activeId, loading, renderedLoading, error, crashed,
                 nPending, fuel, dragStartCol, last, skipped, loadCap, connection, mobile>>

\* the position pass that follows a reply: persistColumnPositions returns at
\* once for an empty column
AfterReply(i, c) ==
  IF c.rows = NoRows THEN RemoveAt(calls, i)
  ELSE ReplaceAt(calls, i, [c EXCEPT !.phase = "persist"])

\* handleAdd after the await, data present and no error: prepend, deduplicate,
\* persistColumnPositions(newColumn)
CreateOk(i) ==
  /\ IsCall(i, "create", "stored")
  /\ LET c == calls[i]
     IN /\ SetBoard(ensureUniqueItems([board EXCEPT ![c.col] = <<Item(c.id, c.title)>> \o board[c.col]]))
        /\ calls' = AfterReply(i, c)
        /\ last' = Last("createOk", c.id, c.col, c.id \in BoardIds(board), c.id \in localUpdateRef)
  /\ UNCHANGED <<rendered, localUpdateRef, activeId, loading, renderedLoading, error, assigned, fuel,
                 dragStartCol, skipped, loadCap, remote, connection, mobile>>

\* handleAdd after the await, error set: the handler does nothing
CreateFailed(i) ==
  /\ IsCall(i, "create", "sent")
  /\ calls' = RemoveAt(calls, i)
  /\ last' = Last("createFailed", NoId, calls[i].col, FALSE, FALSE)
  /\ UNCHANGED <<board, rendered, localUpdateRef, activeId, loading, renderedLoading, error, crashed,
                 assigned, nPending, fuel, dragStartCol, skipped, loadCap, remote, connection, mobile>>

\* handleDelete after the await
DeleteReply(i, ok) ==
  /\ IsCall(i, "delete", "sent")
  /\ LET c == calls[i]
     IN /\ IF ok /\ HasRow(c.id)
           THEN StoreWrites(c.id, NoRow, <<EchoOf("DELETE", c.id, remote.rows[c.id])>>)
           ELSE UNCHANGED remote
        /\ IF ok
           THEN /\ SetBoard(ensureUniqueItems([board EXCEPT ![c.col] = FilterOut(board[c.col], c.id)]))
                /\ calls' = AfterReply(i, c)
                /\ UNCHANGED error
           ELSE /\ SetError("delete")
                /\ calls' = RemoveAt(calls, i)
                /\ UNCHANGED <<board, crashed, nPending>>
        /\ last' = Last(IF ok THEN "deleteOk" ELSE "deleteFailed", c.id, c.col,
                        c.id \in BoardIds(board), c.id \in localUpdateRef)
  /\ UNCHANGED <<rendered, localUpdateRef, activeId, loading, renderedLoading, assigned, fuel,
                 dragStartCol, skipped, loadCap, connection, mobile>>

\* prev[col].map(i => i.id === updated.id ? {...i, ...updated} : i), deduplicated
EditUpdater(prev, col, id, title) ==
  ensureUniqueItems([prev EXCEPT ![col] =
     [k \in 1..Len(prev[col]) |->
        IF prev[col][k].id = id THEN Item(id, title) ELSE prev[col][k]]])

\* handleEdit after the await; .single() makes the update of a row the
\* store no longer has an error
EditReply(i, ok) ==
  /\ IsCall(i, "edit", "sent")
  /\ (remote.on /\ ok) => HasRow(calls[i].id)
  /\ LET c == calls[i]
         row == [remote.rows[c.id] EXCEPT !.title = c.title]
     IN /\ IF ok
           THEN StoreWrites(c.id, row, <<EchoOf("UPDATE", c.id, row)>>)
           ELSE UNCHANGED remote
        /\ IF ok
           THEN /\ SetBoard(EditUpdater(board, c.col, c.id, c.title))
                /\ UNCHANGED error
           ELSE /\ SetError("update")
                /\ UNCHANGED <<board, crashed, nPending>>
        /\ last' = Last(IF ok THEN "editOk" ELSE "editFailed", c.id, c.col,
                        c.id \in BoardIds(board), c.id \in localUpdateRef)
  /\ calls' = RemoveAt(calls, i)
  /\ UNCHANGED <<rendered, localUpdateRef, activeId, loading, renderedLoading, assigned, fuel,
                 dragStartCol, skipped, loadCap, connection, mobile>>

\* updateCardColumnAndPositions after the column update: on an error the
\* marker is removed at once; otherwise both position passes start
ColumnReply(i, ok) ==
  /\ IsCall(i, "column", "update")
  /\ LET c == calls[i]
         row == [remote.rows[c.id] EXCEPT !.column_key = c.col]
     IN /\ IF ok /\ HasRow(c.id)
           THEN StoreWrites(c.id, row, <<EchoOf("UPDATE", c.id, row)>>)
           ELSE UNCHANGED remote
        /\ IF ok
           THEN /\ calls' = ReplaceAt(calls, i, [c EXCEPT !.phase =
                               IF c.rows = NoRows /\ c.rowsOld = NoRows THEN "delay" ELSE "persist"])
                /\ UNCHANGED <<error, localUpdateRef>>
           ELSE /\ SetError("move")
                /\ localUpdateRef' = localUpdateRef \ {c.id}
                /\ calls' = RemoveAt(calls, i)
        /\ last' = Last(IF ok THEN "columnOk" ELSE "columnFailed", c.id, c.col,
                        c.id \in BoardIds(board), c.id \in localUpdateRef)
  /\ UNCHANGED <<board, rendered, activeId, loading, renderedLoading, crashed, assigned, nPending, fuel,
                 dragStartCol, skipped, loadCap, connection, mobile>>

\* the events of the position writes of a pass: one UPDATE per written row
\* the store has (the payload carries the row; positions are not shown)
RECURSIVE PositionEchoes(_)
PositionEchoes(rows) ==
  IF rows = <<>> THEN <<>>
  ELSE (IF HasRow(Head(rows).id)
        THEN <<EchoOf("UPDATE", Head(rows).id, remote.rows[Head(rows).id])>>
        ELSE <<>>) \o PositionEchoes(Tail(rows))

\* the rows of the store after the position writes of a pass: each written
\* row the store has takes the position written last for it
PositionsWritten(rows) ==
  [id \in Ids |->
     IF HasRow(id) /\ \E k \in 1..Len(rows) : rows[k].id = id
     THEN [remote.rows[id] EXCEPT !.position =
             rows[CHOOSE k \in 1..Len(rows) :
                    rows[k].id = id /\ \A j \in (k + 1)..Len(rows) : rows[j].id # id].position]
     ELSE remote.rows[id]]

\* await Promise.all(updatePromises): every position write of the pass has
\* been answered, all with success (ok) or some with an error; the results
\* are not looked at
PersistDone(i, ok) ==
  /\ i \in 1..Len(calls)
  /\ calls[i].phase = "persist"
  /\ calls' = IF calls[i].kind = "column"
              THEN ReplaceAt(calls, i, [calls[i] EXCEPT !.phase = "delay"])
              ELSE RemoveAt(calls, i)
  /\ remote' = IF remote.on /\ ok
               THEN [remote EXCEPT !.rows = PositionsWritten(calls[i].rows \o calls[i].rowsOld),
                                   !.echoes = @ \o PositionEchoes(calls[i].rows \o calls[i].rowsOld)]
               ELSE remote
  /\ UNCHANGED <<board, rendered, localUpdateRef, activeId, loading, renderedLoading, error, crashed,
                 assigned, nPending, fuel, dragStartCol, last, skipped, loadCap, connection, mobile>>

\* variant of the timer callback that leaves the marker set alone
MarkerTimeoutKeeps(i) ==
  /\ i \in 1..Len(calls)
  /\ calls[i].phase = "delay"
  /\ calls' = RemoveAt(calls, i)
  /\ UNCHANGED <<board, rendered, localUpdateRef, activeId, loading, renderedLoading, error,
                 crashed, assigned, nPending, fuel, dragStartCol, last, skipped, loadCap,
                 remote, connection, mobile>>

\* setTimeout(() => localUpdateRef.current.delete(cardId), 1000)
MarkerTimeout(i) ==
  /\ i \in 1..Len(calls)
  /\ calls[i].phase = "delay"
  /\ localUpdateRef' = localUpdateRef \ {calls[i].id}
  /\ calls' = RemoveAt(calls, i)
  /\ UNCHANGED <<board, rendered, activeId, loading, renderedLoading, error, crashed, assigned,
                 nPending, fuel, dragStartCol, last, skipped, loadCap, remote, connection, mobile>>

\* the Dismiss button of the error banner
DismissError ==
  /\ CanGesture
  /\ error # "none"
  /\ ClearError
  /\ UNCHANGED <<board, localUpdateRef, activeId, loading, renderedLoading, crashed, calls,
                 assigned, fuel, dragStartCol, last, skipped, loadCap, remote, connection, mobile>>

\* --------------------------------------------------------- specifications
CallIndex == 1..MaxCalls

\* load, render, real-time events and the drag gesture with its remote calls
NextBoard ==
  \/ loading /\ \E rows \in FetchResults : fetchData(rows)
  \/ fetchFailed
  \/ Render
  \/ \E e \in Event : Ingest(e)
  \/ \E id \in Ids : handleDragStart(id)
  \/ \E o \in OverTargets, below \in BOOLEAN : handleDragOver(o, below)
  \/ \E o \in OverTargets : handleDragEnd(o)
  \/ \E i \in CallIndex, ok \in BOOLEAN : ColumnReply(i, ok)
  \/ \E i \in CallIndex, ok \in BOOLEAN : PersistDone(i, ok)
  \/ \E i \in CallIndex : MarkerTimeout(i)

\* the form, the card menu and the error banner
NextForm ==
  \/ \E c \in UsedCols, t \in Titles : handleAdd(c, t)
  \/ \E id \in Ids : handleDelete(id)
  \/ \E id \in Ids, t \in Titles : handleEdit(id, t)
  \/ \E i \in CallIndex : StoreInsert(i)
  \/ \E i \in CallIndex : CreateOk(i)
  \/ \E i \in CallIndex : CreateFailed(i)
  \/ \E i \in CallIndex, ok \in BOOLEAN : DeleteReply(i, ok)
  \/ \E i \in CallIndex, ok \in BOOLEAN : EditReply(i, ok)
  \/ DismissError

Next == NextBoard \/ NextForm

\* the whole component, MaxSteps gestures and events
Spec == Init /\ [][Next]_vars

\* the marker of a cross-column move under real-time events: drag-start,
\* drag-end, the column update, its position passes and the delay timer
NextMarker ==
  \/ loading /\ \E rows \in FetchResults : fetchData(rows)
  \/ Render
  \/ \E e \in Event : Ingest(e)
  \/ \E id \in Ids : handleDragStart(id)
  \/ \E o \in OverTargets : handleDragEnd(o)
  \/ \E i \in CallIndex, ok \in BOOLEAN : ColumnReply(i, ok)
  \/ \E i \in CallIndex, ok \in BOOLEAN : PersistDone(i, ok)
  \/ \E i \in CallIndex : MarkerTimeout(i)

InitMarker == InitWith(MaxMarkerSteps, MaxMarkerLoad)
SpecMarker == InitMarker /\ [][NextMarker]_vars

\* the same when every remote call is answered and every timer fires
CallsComplete ==
  /\ WF_vars(\E i \in CallIndex, ok \in BOOLEAN : ColumnReply(i, ok))
  /\ WF_vars(\E i \in CallIndex, ok \in BOOLEAN : PersistDone(i, ok))
  /\ WF_vars(\E i \in CallIndex : MarkerTimeout(i))

SpecMarkerLive == SpecMarker /\ CallsComplete

\* the drag gesture alone, on a board no real-time event touches
NextDrag ==
  \/ loading /\ \E rows \in FetchResults : fetchData(rows)
  \/ Render
  \/ \E id \in Ids : handleDragStart(id)
  \/ \E o \in OverTargets, below \in BOOLEAN : handleDragOver(o, below)
  \/ \E o \in OverTargets : handleDragEnd(o)
  \/ \E i \in CallIndex, ok \in BOOLEAN : ColumnReply(i, ok)
  \/ \E i \in CallIndex, ok \in BOOLEAN : PersistDone(i, ok)
  \/ \E i \in CallIndex : MarkerTimeout(i)

SpecDrag == InitMarker /\ [][NextDrag]_vars

\* One session on an empty board with the store's own events: the user adds a
\* card into "todo", edits its title, drops it on "doing" and deletes it, each
\* step on the rendered result of the finished step before, every remote call
\* answered with success.  The events of the writes are delivered in order,
\* each at any later moment.  `fuel` counts the steps still to take (the drop belongs to the move).
ScenarioOps == <<"add", "edit", "move", "delete">>
ScenarioCard == IdNames[1]
ScenarioTitles == [old |-> 1, new |-> 2]
StepsDone == Len(ScenarioOps) - fuel
Settled == ~loading /\ calls = <<>> /\ activeId = NoId
CanStep(op) == ScenarioOps[StepsDone + 1] = op /\ Settled /\ nPending = 0

InitScenario == InitAll(Len(ScenarioOps), 0, TRUE)

NextScenario ==
  \/ fetchData(<<>>)
  \/ Render
  \/ Deliver
  \/ fuel > 0 /\ CanStep("add") /\ handleAdd("todo", ScenarioTitles.old)
  \/ fuel > 0 /\ CanStep("edit") /\ handleEdit(ScenarioCard, ScenarioTitles.new)
  \/ fuel > 0 /\ CanStep("move") /\ handleDragStart(ScenarioCard)
  \/ handleDragEnd("doing")
  \/ fuel > 0 /\ CanStep("delete") /\ handleDelete(ScenarioCard)
  \/ \E i \in CallIndex : StoreInsert(i)
  \/ \E i \in CallIndex : CreateOk(i)
  \/ \E i \in CallIndex : EditReply(i, TRUE)
  \/ \E i \in CallIndex : ColumnReply(i, TRUE)
  \/ \E i \in CallIndex : PersistDone(i, TRUE)
  \/ \E i \in CallIndex : MarkerTimeout(i)
  \/ \E i \in CallIndex : DeleteReply(i, TRUE)

SpecScenario == InitScenario /\ [][NextScenario]_vars

\* load, real-time events and the status reports of the channel
NextConnection ==
  \/ loading /\ \E rows \in FetchResults : fetchData(rows)
  \/ fetchFailed
  \/ Render
  \/ \E e \in Event : Ingest(e)
  \/ \E st \in SubscribeStates : SubscribeStatus(st)

\* one loaded card at most and one real-time event
InitConnection == InitWith(1, 1)
SpecConnection == InitConnection /\ [][NextConnection]_vars

\* One client alone with the store: a loaded board, the user's edits, deletes,
\* reorders and moves, every remote call answered with success, and the events of
\* these writes delivered in order, each at any later moment.
InitEcho == InitAll(2, 2, TRUE)

NextEcho ==
  \/ loading /\ \E rows \in FetchResults :
        (\A k \in 1..Len(rows) : rows[k].column_key \in UsedCols) /\ fetchData(rows)
  \/ Render
  \/ Deliver
  \/ \E id \in Ids, t \in Titles : handleEdit(id, t)
  \/ \E id \in Ids : handleDelete(id)
  \/ \E id \in Ids : handleDragStart(id)
  \/ \E o \in OverTargets : handleDragEnd(o)
  \/ \E i \in CallIndex : EditReply(i, TRUE)
  \/ \E i \in CallIndex : DeleteReply(i, TRUE)
  \/ \E i \in CallIndex : ColumnReply(i, TRUE)
  \/ \E i \in CallIndex : PersistDone(i, TRUE)
  \/ \E i \in CallIndex : MarkerTimeout(i)

SpecEcho == InitEcho /\ [][NextEcho]_vars

\* the drag-over preview under real-time events: a card is picked up and
\* dragged over targets while events arrive
InitPreview == InitWith(3, 1)

NextPreview ==
  \/ loading /\ \E rows \in FetchResults : fetchData(rows)
  \/ Render
  \/ \E e \in Event : Ingest(e)
  \/ \E id \in Ids : handleDragStart(id)
  \/ \E o \in OverTargets, below \in BOOLEAN : handleDragOver(o, below)

SpecPreview == InitPreview /\ [][NextPreview]_vars

\* the whole drag gesture under real-time events, before any remote reply
NextGesture ==
  \/ loading /\ \E rows \in FetchResults : fetchData(rows)
  \/ Render
  \/ \E e \in Event : Ingest(e)
  \/ \E id \in Ids : handleDragStart(id)
  \/ \E o \in OverTargets, below \in BOOLEAN : handleDragOver(o, below)
  \/ \E o \in OverTargets : handleDragEnd(o)

SpecGesture == InitPreview /\ [][NextGesture]_vars

\* the initial load from a store whose column list and rows may name a key
\* outside the fixed four, real-time events that may name it too, and a drag
KeyEvents == Event \cup [eventType : {"INSERT", "UPDATE"}, id : Ids, title : {LoadedTitle},
                         column_key : {InvalidKey}]

NextKeys ==
  \/ loading /\ \E columns \in ColumnLists, rows \in FetchResults :
                  fetchDataWithColumns(columns, rows)
  \/ fetchFailed
  \/ Render
  \/ \E e \in KeyEvents : Ingest(e)
  \/ \E id \in Ids : handleDragStart(id)
  \/ \E o \in OverTargets, below \in BOOLEAN : handleDragOver(o, below)
  \/ \E o \in OverTargets : handleDragEnd(o)

InitKeys == InitWith(2, 1)
SpecKeys == InitKeys /\ [][NextKeys]_vars

\* Two reorders of one column, the second made while the position pass of the
\* first is still in flight, on a loaded board; every write succeeds.
ReorderTwice ==
  \/ fuel = 2 /\ calls = <<>> /\ \E id \in Ids : handleDragStart(id)
  \/ /\ fuel = 1 /\ Len(calls) = 1 /\ calls[1].kind = "positions"
     /\ \E id \in IdsOf(rendered[calls[1].col]) : handleDragStart(id)
  \/ \E o \in OverTargets : DragEndBranch(o) = "reorder" /\ handleDragEnd(o)

InitReorder == InitAll(2, MaxCards, TRUE)

NextReorder ==
  \/ loading /\ \E rows \in FetchResults :
        (\A k \in 1..Len(rows) : rows[k].column_key \in UsedCols) /\ fetchData(rows)
  \/ Render
  \/ ReorderTwice
  \/ \E i \in CallIndex : PersistDone(i, TRUE)

SpecReorder == InitReorder /\ [][NextReorder]_vars

\* The add form submitted twice before the first create is answered (both
\* submits run the handler of the same render, with the same title and
\* column), on an empty board, with the store's own INSERT events.
DoubleSubmit ==
  \/ calls = <<>> /\ fuel = 2 /\ \E c \in UsedCols, t \in Titles : handleAdd(c, t)
  \/ /\ fuel = 1 /\ Len(calls) = 1 /\ calls[1].kind = "create"
     /\ handleAdd(calls[1].col, calls[1].title)

InitTwoAdds == InitAll(2, 0, TRUE)

NextTwoAdds ==
  \/ fetchData(<<>>)
  \/ Render
  \/ Deliver
  \/ DoubleSubmit
  \/ \E i \in CallIndex : StoreInsert(i)
  \/ \E i \in CallIndex : CreateOk(i)
  \/ \E i \in CallIndex : PersistDone(i, TRUE)

SpecTwoAdds == InitTwoAdds /\ [][NextTwoAdds]_vars

\* --------------------------------------------------------- MobileTodoList
\* The task list of src/unnamed/part_000 (MobileTodoList): one array of
\* cards, every change of which is a setTodos updater over prev, so the
\* pending array is the state.  It shares the store and its event channel.
KanbanUnchanged ==
  UNCHANGED <<board, rendered, localUpdateRef, activeId, loading, renderedLoading, error,
              crashed, nPending, loadCap, dragStartCol, last, skipped, connection>>

\* fetchTodos after the query answered with data: setTodos(data || []),
\* then setLoading(false)
fetchTodos(rows) ==
  /\ mobile.loading
  /\ Len(rows) <= loadCap
  /\ mobile' = [mobile EXCEPT !.todos = [k \in 1..Len(rows) |-> Item(rows[k].id, rows[k].title)],
                              !.loading = FALSE]
  /\ assigned' = assigned \cup RowIds(rows)
  /\ remote' = StoreHolding(rows)
  /\ KanbanUnchanged
  /\ UNCHANGED <<calls, fuel>>

\* fetchTodos after the query answered with an error: the list is kept
fetchTodosFailed ==
  /\ mobile.loading
  /\ mobile' = [mobile EXCEPT !.error = "load", !.loading = FALSE]
  /\ KanbanUnchanged
  /\ UNCHANGED <<calls, fuel, assigned, remote>>

\* handleAddTodo up to its await: the insert of {title, column_key: "todo",
\* position: 0} is sent
handleAddTodo(newTitle) ==
  /\ ~mobile.loading
  /\ fuel > 0 /\ Len(calls) < MaxCalls
  /\ fuel' = fuel - 1
  /\ mobile' = [mobile EXCEPT !.error = "none"]
  /\ calls' = calls \o <<Call("create", "sent", "todo", NoCol, NoId, newTitle, NoRows, NoRows)>>
  /\ KanbanUnchanged
  /\ UNCHANGED <<assigned, remote>>

\* handleAddTodo after the await, no error: setTodos(prev => [data, ...prev])
AddTodoOk(i) ==
  /\ IsCall(i, "create", "stored")
  /\ mobile' = [mobile EXCEPT !.todos = <<Item(calls[i].id, calls[i].title)>> \o @]
  /\ calls' = RemoveAt(calls, i)
  /\ KanbanUnchanged
  /\ UNCHANGED <<fuel, assigned, remote>>

\* handleAddTodo after the await, error set: the message is shown
AddTodoFailed(i) ==
  /\ IsCall(i, "create", "sent")
  /\ mobile' = [mobile EXCEPT !.error = "add"]
  /\ calls' = RemoveAt(calls, i)
  /\ KanbanUnchanged
  /\ UNCHANGED <<fuel, assigned, remote>>

\* the list after the subscription callback of MobileTodoList ran on e
TodoEvent(prev, e) ==
  CASE e.eventType = "INSERT" -> <<Item(e.id, e.title)>> \o prev
    [] e.eventType = "UPDATE" ->
         [k \in 1..Len(prev) |-> IF prev[k].id = e.id THEN Item(e.id, e.title) ELSE prev[k]]
    [] e.eventType = "DELETE" -> FilterOut(prev, e.id)

\* the subscription of MobileTodoList delivers the oldest event of the store
TodoDeliver ==
  /\ remote.on /\ remote.echoes # <<>>
  /\ mobile' = [mobile EXCEPT !.todos = TodoEvent(@, Head(remote.echoes))]
  /\ remote' = [remote EXCEPT !.echoes = Tail(@), !.delivered = @ + 1]
  /\ KanbanUnchanged
  /\ UNCHANGED <<calls, fuel, assigned>>

\* MobileTodoList alone with the store: the load, two adds at most, their
\* replies and the events of the inserts
InitMobile == InitAll(2, 1, TRUE)

NextMobile ==
  \/ mobile.loading /\ \E rows \in FetchResults : fetchTodos(rows)
  \/ fetchTodosFailed
  \/ \E t \in Titles : handleAddTodo(t)
  \/ \E i \in CallIndex : StoreInsert(i)
  \/ \E i \in CallIndex : AddTodoOk(i)
  \/ \E i \in CallIndex : AddTodoFailed(i)
  \/ TodoDeliver

SpecMobile == InitMobile /\ [][NextMobile]_vars

\* ------------------------------------------------------------------ claims
\* occurrences of an identity in a column, and on a whole board
CountIn(s, id) == Cardinality({k \in 1..Len(s) : s[k].id = id})
CountOn(b, id) == Cardinality({<<c, k>> \in ColumnKey \X (1..MaxCards + MaxSteps + MaxMarkerSteps) :
                                 k <= Len(b[c]) /\ b[c][k].id = id})
\* the multiset of identities of a set of columns (undefined entries count
\* under NoId)
IdBag(b, cs) == [id \in Ids \cup {NoId} |->
                   Cardinality({<<c, k>> \in cs \X (1..MaxCards + MaxSteps + MaxMarkerSteps) :
                                  k <= Len(b[c]) /\ b[c][k].id = id})]
NoDuplicates(b) == \A id \in Ids : CountOn(b, id) <= 1

\* the call a handler has just issued
NewCall == calls'[Len(calls')]
IssuedOne == Len(calls') = Len(calls) + 1

\* C1: no-duplication invariant.  After any sequence of initial load, add,
\* delete, cross-column move and ingested real-time events, every card
\* identity occurs at most once on the whole board, pending and rendered.
C1_NoDuplication == NoDuplicates(board) /\ NoDuplicates(rendered)

\* an INSERT event for an identity that was already on the board has been
\* ingested, and the identity is on the board
C1_Witness == last.op = "INSERT" /\ last.had /\ last.id \in BoardIds(board)

\* C2: every drag that ends over a column other than the one the card
\* occupied at drag-start issues, at drag-end, a remote update of the card's
\* column to that column, also when drag-over previews moved the card before
\* (stated for a dragged card that is still on the board).
C2_RemoteUpdateAtDragEnd ==
  [][\A o \in OverTargets :
       (/\ handleDragEnd(o)
        /\ activeId \in BoardIds(rendered) /\ activeId \in BoardIds(board)
        /\ findContainer(rendered, o) \notin {NoCol, dragStartCol})
       => /\ IssuedOne
          /\ NewCall.kind = "column" /\ NewCall.phase = "update"
          /\ NewCall.id = activeId
          /\ NewCall.col = findContainer(rendered, o)]_vars

\* C3: a cross-column move at drag-end, from A to B, removes the card from A
\* and leaves it in B exactly once, as the last element of B; the multiset of
\* identities of A and B together and every other column are unchanged; for
\* every board state the move is applied to.
C3_MoveAcrossColumns ==
  [][\A o \in OverTargets :
       (handleDragEnd(o) /\ DragEndBranch(o) = "move")
       => LET A == findContainer(rendered, activeId)
              B == findContainer(rendered, o)
          IN /\ CountIn(board'[A], activeId) = 0
             /\ CountIn(board'[B], activeId) = 1
             /\ board'[B][Len(board'[B])].id = activeId
             /\ IdBag(board', {A, B}) = IdBag(board, {A, B})
             /\ \A c \in ColumnKey \ {A, B} : board'[c] = board[c]]_vars

\* C4: a reorder within a column at drag-end is a pure permutation: the
\* multiset of identities of the column is the same before and after and no
\* other column changes; for every board state the reorder is applied to.
C4_ReorderIsPermutation ==
  [][\A o \in OverTargets :
       (handleDragEnd(o) /\ DragEndBranch(o) = "reorder")
       => LET col == findContainer(rendered, o)
          IN /\ IdBag(board', {col}) = IdBag(board, {col})
             /\ \A c \in ColumnKey \ {col} : board'[c] = board[c]]_vars

\* C5: the position pass started by a within-column reorder writes, for every
\* card of the column, its 0-based index in the column AFTER the reorder.
C5_PersistsNewIndices ==
  [][\A o \in OverTargets :
       (handleDragEnd(o) /\ DragEndBranch(o) = "reorder")
       => LET col == findContainer(rendered, o)
          IN /\ IssuedOne
             /\ NewCall.kind = "positions"
             /\ NewCall.rows = PositionRows(board'[col])]_vars

\* the board an ingested event is applied to changes as the claim states
AppendedTo(b, e) ==
  [c \in ColumnKey |-> IF c = DeclaredCol(e.column_key)
                       THEN FilterOut(b[c], e.id) \o <<Item(e.id, e.title)>>
                       ELSE FilterOut(b[c], e.id)]
PrependedTo(b, e) ==
  [b EXCEPT ![DeclaredCol(e.column_key)] = <<Item(e.id, e.title)>> \o @]
RemovedFrom(b, id) == [c \in ColumnKey |-> FilterOut(b[c], id)]

\* C6: an UPDATE event for a card whose identity is in the pending-write
\* marker set leaves the board unchanged; once the marker has been removed,
\* the next UPDATE event for the same identity is applied: the record is then
\* the last element of the column the event declares and nowhere else.
C6_MarkedUpdateIgnored ==
  [][\A e \in Event :
       (Ingest(e) /\ e.eventType = "UPDATE")
       => IF e.id \in localUpdateRef
          THEN board' = board
          ELSE e.id \in skipped => board' = AppendedTo(board, e)]_vars

\* an UPDATE event for a marked card was skipped, the marker is gone, and a
\* later UPDATE event for the same card has put it last in its column
C6_Witness ==
  /\ last.op = "UPDATE" /\ ~last.marked /\ last.had
  /\ last.id \in skipped /\ last.id \notin localUpdateRef
  /\ Len(board[last.col]) > 0
  /\ board[last.col][Len(board[last.col])].id = last.id

\* C7: an UPDATE event for an unmarked identity removes the identity from
\* every column and places the record as the last element of the declared
\* column; all other cards keep their column and relative order.
C7_UpdateMovesToEnd ==
  [][\A e \in Event :
       (Ingest(e) /\ e.eventType = "UPDATE" /\ e.id \notin localUpdateRef)
       => /\ board' = AppendedTo(board, e)
          /\ CountOn(board', e.id) = 1]_vars

\* an UPDATE event for an unmarked card on the board has been ingested and
\* the card now follows another card of the declared column
C7_Witness ==
  /\ last.op = "UPDATE" /\ ~last.marked /\ last.had
  /\ Len(board[last.col]) >= 2
  /\ board[last.col][Len(board[last.col])].id = last.id

\* C8: an INSERT event whose identity is already on the board is ignored, the
\* board after it equals the board before it; otherwise the record becomes
\* the first element of its declared column.
C8_InsertOfPresentIgnored ==
  [][\A e \in Event :
       (Ingest(e) /\ e.eventType = "INSERT")
       => IF e.id \in BoardIds(board)
          THEN board' = board
          ELSE board' = PrependedTo(board, e)]_vars

\* C9: an INSERT event for an identity already on the board does not change
\* the multiset of identities of the board, and ingesting the same INSERT
\* event once more gives the same multiset as ingesting it once.
C9_InsertIdempotentOnIds ==
  [][\A e \in Event :
       (Ingest(e) /\ e.eventType = "INSERT")
       => /\ e.id \in BoardIds(board)
             => IdBag(board', ColumnKey) = IdBag(board, ColumnKey)
          /\ IdBag(InsertCase(board', e), ColumnKey) = IdBag(board', ColumnKey)]_vars

\* an INSERT event declaring another column than the one that holds the card
\* has been ingested after the load
C9_Witness ==
  /\ last.op = "INSERT" /\ last.had /\ ~loading
  /\ last.id \in BoardIds(board)
  /\ findContainer(board, last.id) # last.col

\* C10: a DELETE event removes the identity from every column, whether or not
\* the identity is marked, and leaves all other cards in place; a DELETE
\* event for an identity that is not on the board leaves the board unchanged.
C10_DeleteRemovesEverywhere ==
  [][\A e \in Event :
       (Ingest(e) /\ e.eventType = "DELETE")
       => /\ board' = RemovedFrom(board, e.id)
          /\ e.id \notin BoardIds(board')
          /\ e.id \notin BoardIds(board) => board' = board]_vars

\* a DELETE event for a marked card that was on the board has been ingested
\* and the card is gone while its marker is still set
C10_Witness ==
  /\ last.op = "DELETE" /\ last.had /\ last.marked
  /\ last.id \in localUpdateRef
  /\ last.id \notin BoardIds(board)

\* the remote calls of a kind that wait for their first reply
InFlight(kind) == {i \in 1..Len(calls) : calls[i].kind = kind /\ calls[i].phase = "sent"}
\* every entry of the board with this identity carries this title
ShowsTitle(b, id, title) ==
  \A c \in ColumnKey : \A k \in 1..Len(b[c]) : b[c][k].id = id => b[c][k].title = title

\* C11: deleting a card removes it from the local board at once, before the
\* remote delete completes: in every state where a remote delete of a card is
\* in flight the card is absent from the local board.
C11_DeleteIsOptimistic ==
  \A i \in InFlight("delete") : calls[i].id \notin BoardIds(board)

\* C12: editing a card merges the new fields into the local record at once:
\* in every state where the remote update of an edit is in flight the local
\* card shows the edited title.
C12_EditIsOptimistic ==
  \A i \in InFlight("edit") : ShowsTitle(board, calls[i].id, calls[i].title)

\* C13: for a reorder, a cross-column move, a delete and an edit the local
\* board change is applied no later than the moment the remote write is
\* issued: in the step that issues the write the board already shows it.
C13_LocalBeforeRemote ==
  [][IssuedOne =>
       CASE NewCall.kind = "delete" -> NewCall.id \notin BoardIds(board')
         [] NewCall.kind = "edit" -> ShowsTitle(board', NewCall.id, NewCall.title)
         [] NewCall.kind \in {"column", "positions"} -> crashed' \/ rendered' = board'
         [] OTHER -> TRUE]_vars

\* C15: when the remote create of an add fails, the board is left unchanged
\* and an error message is surfaced (the error state is non-empty).
C15_CreateFailureSurfaced ==
  [][\A i \in CallIndex :
       CreateFailed(i) => board' = board /\ error' # "none"]_vars

\* C16: when the remote column update of a cross-column move fails, an error
\* message is surfaced, the local board is not rolled back, the card's
\* identity leaves the marker set and no position pass is started.
C16_MoveFailure ==
  [][\A i \in CallIndex :
       ColumnReply(i, FALSE)
       => /\ error' # "none"
          /\ board' = board
          /\ calls[i].id \notin localUpdateRef'
          /\ calls' = RemoveAt(calls, i)]_vars

\* the board the load is to produce: every row in its declared column, in the
\* order fetched, a missing or unknown column key meaning "todo"
RECURSIVE LoadedBoard(_, _)
LoadedBoard(rows, next) ==
  IF rows = <<>> THEN next
  ELSE LET c == Head(rows)
           colKey == IF c.column_key \in ColumnKey THEN c.column_key ELSE "todo"
       IN LoadedBoard(Tail(rows), [next EXCEPT ![colKey] = @ \o <<Item(c.id, c.title)>>])

\* C18: the initial load places every fetched card in its declared column, in
\* fetched order, a card whose column key is missing or not one of the fixed
\* four in "todo"; the result replaces the board.
C18_LoadPartitions ==
  [][(loading /\ ~loading')
       => \A rows \in FetchResults :
            fetchData(rows) => board' = LoadedBoard(rows, initialBoard)]_vars

\* C19: when the store answers the initial fetch with a failure, a load error
\* is surfaced, the board stays empty, the loading flag is cleared and no
\* second fetch is issued.
C19_LoadFailureSurfaced ==
  [][fetchFailed
       => /\ error' # "none"
          /\ board' = initialBoard
          /\ ~loading'
          /\ ~(ENABLED fetchFailed)']_vars

\* the position the store holds for a card of the column once the pass of the
\* create call c has completed: what the pass writes, for the created card
\* else the position of its insert, else none (-1)
CreatedPosition == 0
PositionAfterCreate(c, id) ==
  IF \E r \in 1..Len(c.rows) : c.rows[r].id = id
  THEN c.rows[CHOOSE r \in 1..Len(c.rows) : c.rows[r].id = id].position
  ELSE IF id = c.id THEN CreatedPosition ELSE -1

\* C14: when a remote create succeeds the returned record becomes the first
\* element of the target column and a position pass for that column follows;
\* once it completes the new card's persisted position is 0 and every other
\* card of the column has its index after the prepend as persisted position
\* (stated for a record that is not on the board before the reply, and a
\* board that is rendered as it is).
C14_CreatePersistsPositions ==
  [][\A i \in CallIndex :
       (CreateOk(i) /\ ~crashed /\ board = rendered /\ calls[i].id \notin BoardIds(board))
       => LET c == calls[i]
              col == board'[c.col]
          IN /\ col[1] = Item(c.id, c.title)
             /\ \A k \in 1..Len(col) : PositionAfterCreate(c, col[k].id) = k - 1]_vars

\* a remote operation of the session is answered with a failure
FailureStep ==
  \/ fetchFailed
  \/ loading /\ \E rows \in FetchResults : ThrowsOnRows(rows) /\ fetchData(rows)
  \/ \E i \in CallIndex :
       \/ CreateFailed(i)
       \/ EditReply(i, FALSE)
       \/ DeleteReply(i, FALSE)
       \/ ColumnReply(i, FALSE)
       \/ PersistDone(i, FALSE)

\* C17: every failure of the running session (initial fetch, create, update,
\* delete, position write) surfaces a message in the error banner and leaves
\* the component running.
C17_FailuresSurfaced ==
  [][FailureStep => (error' # "none" /\ ~crashed')]_vars
\* the board each step of the session ends with
ScenarioBoard(done) ==
  CASE done = 1 -> [initialBoard EXCEPT !["todo"] = <<Item(ScenarioCard, ScenarioTitles.old)>>]
    [] done = 2 -> [initialBoard EXCEPT !["todo"] = <<Item(ScenarioCard, ScenarioTitles.new)>>]
    [] done = 3 -> [initialBoard EXCEPT !["doing"] = <<Item(ScenarioCard, ScenarioTitles.new)>>]
    [] OTHER -> initialBoard

\* C20: on an empty board with every remote write succeeding, adding a card
\* into "todo" ends with todo = [card]; editing its title ends with the new
\* title at todo[0]; moving it to "doing" ends with todo = [] and
\* doing = [card]; deleting it ends with doing = [].  The same end states
\* hold when the events echoing these writes are ingested between the steps:
\* whenever a step has finished and either no echo has been ingested or every
\* echo emitted so far has, the board is the end state of that step.
C20_ScenarioEndStates ==
  (Settled /\ (remote.delivered = 0 \/ remote.echoes = <<>>)) => board = ScenarioBoard(StepsDone)

\* both creates are confirmed and both INSERT events are ingested
TwoAddsDone == fuel = 0 /\ calls = <<>> /\ remote.echoes = <<>> /\ remote.delivered = 2

\* C21: two adds submitted concurrently with the same title both issue a
\* create call; whatever the order of the two confirmations and the two INSERT
\* events, the final board holds exactly two cards with distinct identities,
\* each exactly once (and no identity twice at any moment before).
C21_TwoAddsTwoCards ==
  /\ NoDuplicates(board)
  /\ TwoAddsDone =>
       /\ ~crashed
       /\ BoardIds(board) = {IdNames[1], IdNames[2]}
       /\ \A id \in BoardIds(board) : CountOn(board, id) = 1
       /\ \A c \in ColumnKey : \A k \in 1..Len(board[c]) : board[c][k] # Undefined

\* both adds are done, and the INSERT event of a card was ingested before
\* the confirmation of its create
C21_Witness ==
  /\ TwoAddsDone
  /\ last.op = "createOk" /\ last.had
  /\ Cardinality(BoardIds(board)) = 2

\* C22: the connectivity indicator starts as "connecting", becomes
\* "connected" when the subscription reports SUBSCRIBED and "disconnected"
\* whenever it reports a channel error or a timeout; it never shows
\* "connected" while the most recent status reported is such a failure.
C22_ConnectivityIndicator ==
  /\ connection.reported = "none" => connection.status = "connecting"
  /\ connection.reported = "SUBSCRIBED" => connection.status = "connected"
  /\ connection.reported \in {"CHANNEL_ERROR", "TIMED_OUT"} => connection.status = "disconnected"

\* the channel reported a timeout after the board was loaded and the
\* indicator shows "disconnected"
C22_Witness ==
  /\ ~loading
  /\ connection.reported = "TIMED_OUT"
  /\ connection.status = "disconnected"

\* C23: a drag-end whose final target is absent (aborted drag) is a no-op: it
\* changes neither the board nor the marker set, issues no remote write (and
\* sets no error), and only clears the active-drag identity.
C23_AbortedDragEnd ==
  [][handleDragEnd(NoOver)
       => /\ board' = board
          /\ localUpdateRef' = localUpdateRef
          /\ calls' = calls
          /\ remote' = remote
          /\ error' = error
          /\ activeId' = NoId]_vars

\* a drag of a card of the board was aborted while an ingested event was
\* still waiting for its render
C23_Witness ==
  /\ last.op = "none" /\ last.col = NoCol
  /\ last.had /\ last.stale
  /\ activeId = NoId

\* C24: lifecycle of the marker of a cross-column move: the card's identity
\* is in the marker set from the step that issues the remote column update;
\* a failed update removes it at once; after a successful update it stays
\* through the position passes and is removed when the delay timer fires; so
\* every marked identity is eventually unmarked when its remote calls complete.
C24_MarkerLifecycle ==
  /\ [][/\ (IssuedOne /\ NewCall.kind = "column") => NewCall.id \in localUpdateRef'
        /\ \A i \in CallIndex :
             /\ ColumnReply(i, FALSE) => calls[i].id \notin localUpdateRef'
             /\ ColumnReply(i, TRUE) => localUpdateRef' = localUpdateRef
             /\ (PersistDone(i, TRUE) \/ PersistDone(i, FALSE)) => localUpdateRef' = localUpdateRef
             /\ MarkerTimeout(i) => calls[i].id \notin localUpdateRef']_vars
  /\ \A id \in Ids : (id \in localUpdateRef) ~> (id \notin localUpdateRef)

\* a cross-column move went through its column update, its position passes
\* and its delay, and the marker set is empty again
C24_Witness ==
  /\ last.op = "columnOk" /\ last.marked
  /\ calls = <<>>
  /\ localUpdateRef = {}

\* C25: own-echo suppression.  An UPDATE event that echoes a remote write of
\* this client (an edit, a column change or a position write) does not change
\* the board: the card keeps its column and its index within the column.
C25_OwnEchoSuppressed ==
  [][(Deliver /\ Head(remote.echoes).eventType = "UPDATE"
        /\ Head(remote.echoes).id \in BoardIds(board))
       => LET id == Head(remote.echoes).id
              col == findContainer(board, id)
          IN /\ findContainer(board', id) = col
             /\ FindIndex(board'[col], id) = FindIndex(board[col], id)]_vars

\* C26: the drag-over preview is idempotent under repeated invocation:
\* applying the same drag-over event (same dragged card, same target, same
\* pointer geometry) twice in a row yields the same board as applying it
\* once, when the component re-rendered in between and when it did not (the
\* second call is then made by the handler of the same render).
C26_DragOverIdempotent ==
  [][\A o \in OverTargets, below \in BOOLEAN :
       (handleDragOver(o, below) /\ activeId \in BoardIds(rendered))
       => /\ board' = DragOverApplied(rendered, board, activeId, o, below)
          /\ DragOverApplied(board', board', activeId, o, below) = board'
          /\ DragOverApplied(rendered, board', activeId, o, below) = board']_vars

\* the board the preview is to produce: the card taken out of column A and put
\* into column B, last when the target is the column, else directly before
\* the hovered card, or directly after it when the pointer is past it
PreviewOf(b, id, A, B, o, past) ==
  LET item == At(b[A], FindIndex(b[A], id))
      at == IF o \in ColumnKey THEN Len(b[B])
            ELSE FindIndex(b[B], o) + (IF past THEN 1 ELSE 0)
  IN [b EXCEPT ![A] = FilterOut(b[A], id),
               ![B] = SubSeq(b[B], 1, at) \o <<item>> \o SubSeq(b[B], at + 1, Len(b[B]))]

\* C27: drag-over preview insertion index.  When the dragged card is over a
\* column other than the one it occupies, it is removed from its column and
\* inserted into the target column, at the end if the target is the column
\* itself, otherwise directly before the hovered card, or directly after it
\* when the pointer is past that card; the dragged card ends in exactly one
\* column and no other card changes relative order.
C27_PreviewInsertion ==
  [][\A o \in OverTargets, past \in BOOLEAN :
       LET A == findContainer(rendered, activeId)
           B == findContainer(rendered, o)
       IN (handleDragOver(o, past) /\ A # NoCol /\ B # NoCol /\ A # B)
          => /\ board' = PreviewOf(board, activeId, A, B, o, past)
             /\ CountOn(board', activeId) = 1
             /\ activeId \in IdsOf(board'[B])
             /\ ~HasUndefined(board')]_vars

\* the position the store holds for every card of a column is the card's
\* index in the column
PositionsMatchIn(rows, b, col) ==
  \A k \in 1..Len(b[col]) : rows[b[col][k].id].position = k - 1
PositionsMatch(b, col) == PositionsMatchIn(remote.rows, b, col)

\* C28: two position passes for the same column that overlap in time (a
\* second reorder before the first pass completed) leave, once all their
\* writes have completed, remote positions equal to the indices of the final
\* local sequence of that column.
C28_OverlappingPasses ==
  (fuel = 0 /\ activeId = NoId /\ calls = <<>> /\ last.op = "reorder")
    => PositionsMatch(board, last.col)

\* C29: when the remote column update of a cross-column move succeeds, one
\* position pass is started for the source column and one for the target
\* column, and after both complete every card of both columns has a persisted
\* position equal to its index in the local sequence after the move (stated
\* for a move whose calls are the only ones in flight, with no event ingested).
C29_MovePersistsPositions ==
  [][\A i \in CallIndex :
       /\ (ColumnReply(i, TRUE) /\ Len(calls) = 1)
          => /\ Len(calls') = 1 /\ calls'[1].phase = "persist"
             /\ calls'[1].rows = calls[1].rows /\ calls'[1].rowsOld = calls[1].rowsOld
       /\ (PersistDone(i, TRUE) /\ calls[i].kind = "column" /\ Len(calls) = 1
             /\ remote.delivered = 0 /\ ~crashed)
          => /\ PositionsMatchIn(remote'.rows, board', calls[i].col)
             /\ PositionsMatchIn(remote'.rows, board', calls[i].old)]_vars

\* C30: after a delete has succeeded remotely, the position pass for the
\* column writes positions only for cards still in the column, and afterwards
\* those cards have the contiguous positions 0..n-1 in local sequence order:
\* no write targets the deleted identity and no gap remains (stated for a
\* delete whose calls are the only ones in flight, with no event ingested).
C30_DeletePersistsPositions ==
  [][\A i \in CallIndex :
       (PersistDone(i, TRUE) /\ calls[i].kind = "delete" /\ Len(calls) = 1
          /\ remote.delivered = 0 /\ ~crashed)
       => /\ \A r \in 1..Len(calls[i].rows) : calls[i].rows[r].id # calls[i].id
          /\ PositionsMatchIn(remote'.rows, board', calls[i].col)]_vars

\* C31: findContainer resolves a column key to that column, an identity
\* held by a column of its board to that column and any other identity to
\* not-found; a drag-over or drag-end whose dragged card or target is not
\* found leaves the board unchanged and issues no remote write.
NotFound(id) == findContainer(rendered, id) = NoCol
C31_ContainerResolution ==
  /\ [](/\ \A c \in ColumnKey : findContainer(rendered, c) = c
        /\ \A id \in Ids :
             /\ id \in BoardIds(rendered) => id \in IdsOf(rendered[findContainer(rendered, id)])
             /\ id \notin BoardIds(rendered) => NotFound(id))
  /\ [][\A o \in OverTargets :
          ((NotFound(activeId) \/ NotFound(o))
             /\ (handleDragEnd(o) \/ \E below \in BOOLEAN : handleDragOver(o, below)))
          => board' = board /\ calls' = calls /\ remote' = remote
             /\ localUpdateRef' = localUpdateRef]_vars

\* a drag-end over a rendered target found its dragged card on no column
C31_Witness ==
  /\ last.op = "none" /\ last.col # NoCol /\ last.id \in Ids
  /\ last.id \notin BoardIds(board) /\ ~last.stale

\* C32: ensureUniqueItems keeps, for every identity, its first occurrence
\* in the column order todo, doing, done, temp and top to bottom within a
\* column, keeps the kept cards in their order, adds no card and returns
\* its own results unchanged.
\* boards as handed to ensureUniqueItems: identities may occur again, with
\* the same or another title
DupSeqs == UNION {[1..n -> [id : Ids, title : Titles]] : n \in 0..2}
DupBoard(f) == [c \in ColumnKey |-> IF c \in UsedCols THEN f[c] ELSE <<>>]
\* the entry k of column c is the first occurrence of its identity
IsFirst(b, c, k) ==
  /\ \A j \in 1..(k - 1) : b[c][j].id # b[c][k].id
  /\ \A j \in 1..(ColIndex(c) - 1) : b[c][k].id \notin IdsOf(b[Cols[j]])
FirstAt(b, c) == {k \in 1..Len(b[c]) : IsFirst(b, c, k)}
\* the n-th first occurrence of column c
NthFirst(b, c, n) ==
  CHOOSE k \in FirstAt(b, c) : Cardinality({j \in FirstAt(b, c) : j < k}) = n - 1
Deduplicated(b, r) ==
  /\ \A c \in ColumnKey :
       /\ Len(r[c]) = Cardinality(FirstAt(b, c))
       /\ \A n \in 1..Len(r[c]) : r[c][n] = b[c][NthFirst(b, c, n)]
  /\ BoardIds(r) \subseteq BoardIds(b)
  /\ \A id \in BoardIds(b) : CountOn(r, id) = 1
  /\ ensureUniqueItems(r) = r
C32_Deduplication ==
  /\ \A f \in [UsedCols -> DupSeqs] :
       Deduplicated(DupBoard(f), ensureUniqueItems(DupBoard(f)))
  /\ [][\A e \in Event :
          (Ingest(e) /\ e.eventType = "INSERT")
          => /\ board' = ensureUniqueItems(InsertCaseNoDedup(board, e))
             /\ Deduplicated(InsertCaseNoDedup(board, e), board')]_vars

\* an INSERT event declared a column for a card that an earlier column
\* holds: the copy the event added was the one discarded
C32_Witness ==
  /\ last.op = "INSERT" /\ last.had /\ CountOn(board, last.id) = 1
  /\ findContainer(board, last.id) # last.col

\* C33: real-time events ingested while the initial load is in flight are
\* not lost: when the load completes, the card of the last event ingested
\* before is on the board after an INSERT, in the declared column after an
\* UPDATE, and on no column after a DELETE.
C33_EventsDuringLoadKept ==
  [][\A rows \in FetchResults :
       (fetchData(rows) /\ ~ThrowsOnRows(rows))
       => /\ last.op = "INSERT" => last.id \in BoardIds(board')
          /\ last.op = "UPDATE" => last.id \in IdsOf(board'[last.col])
          /\ last.op = "DELETE" => last.id \notin BoardIds(board')]_vars

\* C34: every entry of every column is a card record with an identity: no
\* drag-over, reorder or move computed from the last rendered board puts an
\* absent (undefined) entry into a column of a board that an event or an
\* earlier drag-over changed in between.
C34_NoUndefinedEntry ==
  \A c \in ColumnKey : \A k \in 1..Len(board[c]) :
     board[c][k] # Undefined /\ board[c][k].id \in Ids

\* C35: whenever a remote column update issued by this client for a card is
\* still in flight, the card is in the Pending-Write Marker Set, also when
\* two moves of the same card overlap.
C35_MarkerCoversUpdates ==
  \A i \in 1..Len(calls) :
     (calls[i].kind = "column" /\ calls[i].phase = "update") => calls[i].id \in localUpdateRef

\* C36: for one client alone with the store, once every remote write has
\* completed with success, every event of these writes has been ingested,
\* every marker has expired and no drag is in progress, each card of the
\* board is in the column the store records for it and each column is in
\* the ascending order of the persisted positions.
Quiescent ==
  /\ ~loading /\ calls = <<>> /\ remote.echoes = <<>>
  /\ localUpdateRef = {} /\ activeId = NoId
C36_QuiescentConvergence ==
  Quiescent =>
    \A c \in ColumnKey :
      /\ \A k \in 1..Len(board[c]) :
           /\ board[c][k].id \in Ids
           /\ HasRow(board[c][k].id)
           /\ DeclaredCol(remote.rows[board[c][k].id].column_key) = c
      /\ \A j, k \in 1..Len(board[c]) :
           (j < k /\ board[c][j].id \in Ids /\ board[c][k].id \in Ids)
             => remote.rows[board[c][j].id].position <= remote.rows[board[c][k].id].position

\* C37: a card removed from the board by a DELETE event is not put back by
\* a cross-column drag-end that took the dragged card from the last
\* rendered board, when the event was ingested before the drag-end.
C37_DeletedCardStaysDeleted ==
  [][\A o \in OverTargets :
       (/\ handleDragEnd(o)
        /\ DragEndBranch(o) = "move"
        /\ last.op = "DELETE" /\ last.id = activeId
        /\ activeId \notin BoardIds(board))
       => activeId \notin BoardIds(board')]_vars

\* C38: the key set of the board is always exactly the four fixed columns,
\* whatever keys the column list and the card rows of the initial load and
\* the ingested events name.
C38_FixedKeySet == DOMAIN board = ColumnKey /\ DOMAIN rendered = ColumnKey

\* C39: in the mobile task list no identity ever occurs twice, whatever the
\* order of an add's confirmation and the INSERT event of the same create.
C39_TaskListedOnce ==
  \A j, k \in 1..Len(mobile.todos) : j # k => mobile.todos[j].id # mobile.todos[k].id

====
